---- MODULE Spec2Model ----
(***************************************************************************)
(* Resilience core of ai-lead-system:                                      *)
(*   - CircuitBreaker  (src/frontend/app/core/circuit_breaker.py)          *)
(*   - RetryQueue      (src/frontend/app/services/retry_queue.py)          *)
(* Time is an integer number of seconds.  asyncio code runs atomically     *)
(* between two suspension points, so one action is one such stretch.       *)
(***************************************************************************)
EXTENDS Integers, Naturals, Sequences, FiniteSets, TLC

(***************************************************************************)
(* Bounds of the model.                                                    *)
(***************************************************************************)
NCallers == 2
MaxCalls == 4
MaxClock == 4
MaxFailureThreshold == 2
MaxSuccessThreshold == 2
ResetTimeout == 2
CallTimeout == 2


NWorkers == 2
MaxTasks == 2
MaxTasksSmall == 1
MaxMaxAttempts == 2
MaxRequeues == 1
MaxBackoffAttempts == 9
TickSeconds == 30
MaxTime == 30
TzShift == 3600

None == -1

Callers == 1..NCallers
Callers1 == {1}

CLOSED == "closed"
OPEN == "open"
HALF_OPEN == "half_open"

VARIABLES
  breaker,            \* CircuitBreaker: state, stats, _state_changed_at
  failure_threshold,  \* CircuitBreaker.failure_threshold
  success_threshold,  \* CircuitBreaker.success_threshold
  clock,              \* time.time()
  cpc,                \* per caller: "idle" or "running" (operation in flight)
  outcome,            \* per caller: how its last call() ended
  invoked,            \* number of times the wrapped operation was invoked
  started,            \* per caller: time.time() when its wait_for began (None: idle)
  h_streak,           \* history: failed calls in a row (resolved operations)
  h_probe_succ,       \* history: successes in a row since HALF_OPEN was entered
  h_probe,            \* history: callers whose running call moved OPEN to HALF_OPEN
  h_probe_fail        \* history: [at, state] of the last failure of such a call

VARIABLES
  utcnow,       \* datetime.utcnow()
  tasks,        \* store: retry:task:<id> -> serialized RetryTask
  pending,      \* store: sorted set retry:pending, id -> score (None: absent)
  processing,   \* store: set retry:processing
  dead,         \* store: list retry:dead
  handlers,     \* RetryQueue._handlers: the task types that have a handler
  wk,           \* per worker: position and locals of process_pending
  enq,          \* the enqueue() call in progress, if any
  rdl,          \* the retry_dead_letter() call in progress, if any
  next_id,      \* number of task ids handed out so far (uuid4 is fresh)
  h_inv,        \* history: handler invocations per task since enqueue/requeue
  h_run,        \* history: handler invocations per task since it was last
                \*          put into the pending index
  h_enq,        \* history: per task, [at, due]: time of enqueue() and at + delay
  h_requeues    \* history: number of retry_dead_letter() calls that applied

rqvars == <<utcnow, tasks, pending, processing, dead, handlers, wk, enq, rdl,
            next_id, h_inv, h_run, h_enq, h_requeues>>

cbvars == <<breaker, failure_threshold, success_threshold, clock, cpc, outcome,
            invoked, started, h_streak, h_probe_succ, h_probe, h_probe_fail>>

VARIABLE
  obs           \* the health endpoint: the last get_status() result (status)
                \* and its time (read_at), and the get_queue_stats() call in
                \* progress or done (stats)

(***************************************************************************)
(* CircuitStats and CircuitBreaker.__init__                                *)
(***************************************************************************)
CircuitStats ==
  [failures |-> 0, successes |-> 0,
   last_failure_time |-> None, last_success_time |-> None,
   consecutive_failures |-> 0, consecutive_successes |-> 0]

CircuitBreaker(t) ==
  [state |-> CLOSED, stats |-> CircuitStats, state_changed_at |-> t]

(***************************************************************************)
(* The breaker's methods, as functions of the breaker b and time.time() t. *)
(***************************************************************************)
\* Mutant: the cool-down is not waited for.
should_attempt_reset_nowait(b, t) ==
  b.state = OPEN

should_attempt_reset(b, t) ==
  IF b.state # OPEN THEN FALSE
  ELSE t - b.state_changed_at >= ResetTimeout

\* Mutant: the transition does not restart the cool-down.
transition_to_keep_time(b, new_state, t) ==
  IF b.state # new_state THEN [b EXCEPT !.state = new_state] ELSE b

transition_to(b, new_state, t) ==
  IF b.state # new_state
    THEN [b EXCEPT !.state = new_state, !.state_changed_at = t]
    ELSE b

\* Mutant: an elapsed cool-down closes the breaker at once, without a probe.
call_admit_close(b, t) ==
  IF should_attempt_reset(b, t) THEN transition_to(b, CLOSED, t) ELSE b

\* The locked section at the head of call(): the breaker after the reset check.
call_admit(b, t) ==
  IF should_attempt_reset(b, t) THEN transition_to(b, HALF_OPEN, t) ELSE b

\* Mutant: one success more than success_threshold is needed to close.
on_success_gt(b, t, sth) ==
  LET s == [b.stats EXCEPT !.successes = @ + 1,
                           !.last_success_time = t,
                           !.consecutive_successes = @ + 1,
                           !.consecutive_failures = 0]
      b1 == [b EXCEPT !.stats = s]
  IN IF b1.state = HALF_OPEN /\ s.consecutive_successes > sth
       THEN transition_to(b1, CLOSED, t)
       ELSE b1

on_success(b, t, sth) ==
  LET s == [b.stats EXCEPT !.successes = @ + 1,
                           !.last_success_time = t,
                           !.consecutive_successes = @ + 1,
                           !.consecutive_failures = 0]
      b1 == [b EXCEPT !.stats = s]
  IN IF b1.state = HALF_OPEN /\ s.consecutive_successes >= sth
       THEN transition_to(b1, CLOSED, t)
       ELSE b1

\* Mutant: one failure more than failure_threshold is needed to open.
on_failure_gt(b, t, fth) ==
  LET s == [b.stats EXCEPT !.failures = @ + 1,
                           !.last_failure_time = t,
                           !.consecutive_failures = @ + 1,
                           !.consecutive_successes = 0]
      b1 == [b EXCEPT !.stats = s]
  IN IF b1.state = HALF_OPEN
       THEN transition_to(b1, OPEN, t)
       ELSE IF b1.state = CLOSED /\ s.consecutive_failures > fth
              THEN transition_to(b1, OPEN, t)
              ELSE b1

on_failure(b, t, fth) ==
  LET s == [b.stats EXCEPT !.failures = @ + 1,
                           !.last_failure_time = t,
                           !.consecutive_failures = @ + 1,
                           !.consecutive_successes = 0]
      b1 == [b EXCEPT !.stats = s]
  IN IF b1.state = HALF_OPEN
       THEN transition_to(b1, OPEN, t)
       ELSE IF b1.state = CLOSED /\ s.consecutive_failures >= fth
              THEN transition_to(b1, OPEN, t)
              ELSE b1

(***************************************************************************)
(* Breaker state machine.                                                  *)
(***************************************************************************)
CBInit ==
  /\ failure_threshold \in 1..MaxFailureThreshold
  /\ success_threshold \in 1..MaxSuccessThreshold
  /\ clock = 0
  /\ breaker = CircuitBreaker(0)
  /\ cpc = [c \in Callers |-> "idle"]
  /\ outcome = [c \in Callers |-> "none"]
  /\ invoked = 0
  /\ started = [c \in Callers |-> None]
  /\ h_streak = 0
  /\ h_probe_succ = 0
  /\ h_probe = {}
  /\ h_probe_fail = [at |-> None, state |-> "none"]

\* History bookkeeping shared by the actions; b is the breaker after the
\* admission check, c the caller.
IsProbeEntry(b) == breaker.state = OPEN /\ b.state = HALF_OPEN

HistAdmit(c, b) ==
  /\ h_probe_succ' = IF IsProbeEntry(b) THEN 0 ELSE h_probe_succ
  /\ h_probe' = IF IsProbeEntry(b) THEN h_probe \cup {c} ELSE h_probe
  /\ UNCHANGED <<h_streak, h_probe_fail>>

HistSuccess(c) ==
  /\ h_streak' = 0
  /\ h_probe_succ' = IF breaker.state = HALF_OPEN THEN h_probe_succ + 1 ELSE h_probe_succ
  /\ h_probe' = h_probe \ {c}
  /\ UNCHANGED h_probe_fail

HistFailure(c) ==
  /\ h_streak' = h_streak + 1
  /\ h_probe_succ' = IF breaker.state = HALF_OPEN THEN 0 ELSE h_probe_succ
  /\ h_probe' = h_probe \ {c}
  /\ h_probe_fail' = IF c \in h_probe
                       THEN [at |-> clock, state |-> breaker.state]
                       ELSE h_probe_fail

HistSync(c, b, ok) ==
  LET hp0 == IF IsProbeEntry(b) THEN 0 ELSE h_probe_succ IN
  /\ h_streak' = IF ok THEN 0 ELSE h_streak + 1
  /\ h_probe_succ' = IF b.state = HALF_OPEN THEN (IF ok THEN hp0 + 1 ELSE 0) ELSE hp0
  /\ h_probe_fail' = IF IsProbeEntry(b) /\ ~ok
                       THEN [at |-> clock, state |-> b.state]
                       ELSE h_probe_fail
  /\ UNCHANGED h_probe

\* call(): rejected under the lock; the operation is not invoked.
CallRejected(c) ==
  /\ UNCHANGED <<rqvars, obs>>
  /\ cpc[c] = "idle"
  /\ LET b == call_admit(breaker, clock) IN
       /\ b.state = OPEN
       /\ breaker' = b
       /\ outcome' = [outcome EXCEPT ![c] = "CircuitOpenError"]
       /\ HistAdmit(c, b)
  /\ UNCHANGED <<failure_threshold, success_threshold, clock, cpc, invoked, started>>

\* Mutant: the lock stays held while the operation is awaited, so a call is
\* admitted only when no other operation is in flight.
CallAsync_locked(c) ==
  /\ UNCHANGED <<rqvars, obs>>
  /\ cpc[c] = "idle"
  /\ \A d \in Callers : cpc[d] # "running"
  /\ invoked < MaxCalls
  /\ LET b == call_admit(breaker, clock) IN
       /\ b.state # OPEN
       /\ breaker' = b
       /\ HistAdmit(c, b)
  /\ cpc' = [cpc EXCEPT ![c] = "running"]
  /\ outcome' = [outcome EXCEPT ![c] = "none"]
  /\ invoked' = invoked + 1
  /\ started' = [started EXCEPT ![c] = clock]
  /\ UNCHANGED <<failure_threshold, success_threshold, clock>>

\* call() of a coroutine function: admitted, the operation is awaited.
CallAsync(c) ==
  /\ UNCHANGED <<rqvars, obs>>
  /\ cpc[c] = "idle"
  /\ invoked < MaxCalls
  /\ LET b == call_admit(breaker, clock) IN
       /\ b.state # OPEN
       /\ breaker' = b
       /\ HistAdmit(c, b)
  /\ cpc' = [cpc EXCEPT ![c] = "running"]
  /\ outcome' = [outcome EXCEPT ![c] = "none"]
  /\ invoked' = invoked + 1
  /\ started' = [started EXCEPT ![c] = clock]
  /\ UNCHANGED <<failure_threshold, success_threshold, clock>>

\* Mutant: a success that completes the streak closes the breaker from any
\* state.
AsyncSucceed_closes_open(c) ==
  /\ UNCHANGED <<rqvars, obs>>
  /\ cpc[c] = "running"
  /\ clock - started[c] <= CallTimeout
  /\ LET b == on_success(breaker, clock, success_threshold)
     IN breaker' = IF b.stats.consecutive_successes >= success_threshold
                     THEN transition_to(b, CLOSED, clock)
                     ELSE b
  /\ HistSuccess(c)
  /\ cpc' = [cpc EXCEPT ![c] = "idle"]
  /\ outcome' = [outcome EXCEPT ![c] = "ok"]
  /\ started' = [started EXCEPT ![c] = None]
  /\ UNCHANGED <<failure_threshold, success_threshold, clock, invoked>>

\* The awaited operation returns before wait_for's timer fires (a clock
\* reading of exactly CallTimeout may be either side of it): _on_success,
\* result returned.
AsyncSucceed(c) ==
  /\ UNCHANGED <<rqvars, obs>>
  /\ cpc[c] = "running"
  /\ clock - started[c] <= CallTimeout
  /\ breaker' = on_success(breaker, clock, success_threshold)
  /\ HistSuccess(c)
  /\ cpc' = [cpc EXCEPT ![c] = "idle"]
  /\ outcome' = [outcome EXCEPT ![c] = "ok"]
  /\ started' = [started EXCEPT ![c] = None]
  /\ UNCHANGED <<failure_threshold, success_threshold, clock, invoked>>

\* Mutant: the operation's error is re-raised without being recorded.
AsyncFail_unrecorded(c) ==
  /\ UNCHANGED <<rqvars, obs>>
  /\ cpc[c] = "running"
  /\ clock - started[c] <= CallTimeout
  /\ breaker' = breaker
  /\ HistFailure(c)
  /\ cpc' = [cpc EXCEPT ![c] = "idle"]
  /\ outcome' = [outcome EXCEPT ![c] = "error"]
  /\ started' = [started EXCEPT ![c] = None]
  /\ UNCHANGED <<failure_threshold, success_threshold, clock, invoked>>

\* The awaited operation raises: _on_failure(str(e)), error re-raised.
AsyncFail(c) ==
  /\ UNCHANGED <<rqvars, obs>>
  /\ cpc[c] = "running"
  /\ clock - started[c] <= CallTimeout
  /\ breaker' = on_failure(breaker, clock, failure_threshold)
  /\ HistFailure(c)
  /\ cpc' = [cpc EXCEPT ![c] = "idle"]
  /\ outcome' = [outcome EXCEPT ![c] = "error"]
  /\ started' = [started EXCEPT ![c] = None]
  /\ UNCHANGED <<failure_threshold, success_threshold, clock, invoked>>

\* Mutant: the timeout is recorded by both except clauses.
AsyncTimeout_twice(c) ==
  /\ UNCHANGED <<rqvars, obs>>
  /\ cpc[c] = "running"
  /\ clock - started[c] >= CallTimeout
  /\ breaker' = on_failure(on_failure(breaker, clock, failure_threshold),
                           clock, failure_threshold)
  /\ HistFailure(c)
  /\ cpc' = [cpc EXCEPT ![c] = "idle"]
  /\ outcome' = [outcome EXCEPT ![c] = "TimeoutError"]
  /\ started' = [started EXCEPT ![c] = None]
  /\ UNCHANGED <<failure_threshold, success_threshold, clock, invoked>>

\* asyncio.wait_for gives up after timeout_seconds and cancels the operation:
\* _on_failure("Timeout"), TimeoutError re-raised.
AsyncTimeout(c) ==
  /\ UNCHANGED <<rqvars, obs>>
  /\ cpc[c] = "running"
  /\ clock - started[c] >= CallTimeout
  /\ breaker' = on_failure(breaker, clock, failure_threshold)
  /\ HistFailure(c)
  /\ cpc' = [cpc EXCEPT ![c] = "idle"]
  /\ outcome' = [outcome EXCEPT ![c] = "TimeoutError"]
  /\ started' = [started EXCEPT ![c] = None]
  /\ UNCHANGED <<failure_threshold, success_threshold, clock, invoked>>

\* Mutant: the failure of a plain function is counted but never opens the
\* breaker.
CallSync_counted_only(c, ok) ==
  /\ UNCHANGED <<rqvars, obs>>
  /\ cpc[c] = "idle"
  /\ invoked < MaxCalls
  /\ LET b == call_admit(breaker, clock) IN
       /\ b.state # OPEN
       /\ breaker' = IF ok THEN on_success(b, clock, success_threshold)
                           ELSE [b EXCEPT !.stats =
                                   on_failure(b, clock, failure_threshold).stats]
       /\ HistSync(c, b, ok)
  /\ outcome' = [outcome EXCEPT ![c] = IF ok THEN "ok" ELSE "error"]
  /\ invoked' = invoked + 1
  /\ UNCHANGED <<failure_threshold, success_threshold, clock, cpc, started>>

\* call() of a plain function: func() runs inline, no suspension point
\* between the admission and the bookkeeping.
CallSync(c, ok) ==
  /\ UNCHANGED <<rqvars, obs>>
  /\ cpc[c] = "idle"
  /\ invoked < MaxCalls
  /\ LET b == call_admit(breaker, clock) IN
       /\ b.state # OPEN
       /\ breaker' = IF ok THEN on_success(b, clock, success_threshold)
                           ELSE on_failure(b, clock, failure_threshold)
       /\ HistSync(c, b, ok)
  /\ outcome' = [outcome EXCEPT ![c] = IF ok THEN "ok" ELSE "error"]
  /\ invoked' = invoked + 1
  /\ UNCHANGED <<failure_threshold, success_threshold, clock, cpc, started>>

CallSyncOk(c) == CallSync(c, TRUE)
CallSyncFail(c) == CallSync(c, FALSE)

\* call() of a plain function that runs for more than timeout_seconds:
\* func() is not wrapped in wait_for and blocks the event loop until it
\* returns or raises at time t; the bookkeeping follows at once.
CallSyncSlow(c, ok) ==
  /\ UNCHANGED <<rqvars, obs>>
  /\ cpc[c] = "idle"
  /\ invoked < MaxCalls
  /\ clock + CallTimeout + 1 <= MaxClock
  /\ LET b == call_admit(breaker, clock)
         t == clock + CallTimeout + 1
         hp0 == IF IsProbeEntry(b) THEN 0 ELSE h_probe_succ
     IN /\ b.state # OPEN
        /\ clock' = t
        /\ breaker' = IF ok THEN on_success(b, t, success_threshold)
                            ELSE on_failure(b, t, failure_threshold)
        /\ h_streak' = IF ok THEN 0 ELSE h_streak + 1
        /\ h_probe_succ' = IF b.state = HALF_OPEN THEN (IF ok THEN hp0 + 1 ELSE 0)
                                                  ELSE hp0
        /\ h_probe_fail' = IF IsProbeEntry(b) /\ ~ok
                             THEN [at |-> t, state |-> b.state]
                             ELSE h_probe_fail
  /\ outcome' = [outcome EXCEPT ![c] = IF ok THEN "ok" ELSE "error"]
  /\ invoked' = invoked + 1
  /\ UNCHANGED <<failure_threshold, success_threshold, cpc, started, h_probe>>

CallSyncSlowOk(c) == CallSyncSlow(c, TRUE)
CallSyncSlowFail(c) == CallSyncSlow(c, FALSE)

CBTick ==
  /\ UNCHANGED <<rqvars, obs>>
  /\ clock < MaxClock
  /\ clock' = clock + 1
  /\ UNCHANGED <<breaker, failure_threshold, success_threshold, cpc, outcome,
                 invoked, started, h_streak, h_probe_succ, h_probe, h_probe_fail>>

(***************************************************************************)
(* Retry queue: constants of RetryQueue and the store's primitives.        *)
(***************************************************************************)
BASE_DELAY_SECONDS == 30
MAX_DELAY_SECONDS == 3600
BACKOFF_MULTIPLIER == 2
BATCH_NUM == 100

Workers == 1..NWorkers
Workers1 == {1}
TaskIds == 1..MaxTasks
TaskTypes == {"send"}
\* The task types callers enqueue, with or without a registered handler.
AllTaskTypes == TaskTypes \cup {"export"}
Delays == {0, TickSeconds}

PENDING == "pending"
PROCESSING == "processing"
COMPLETED == "completed"
FAILED == "failed"
DEAD == "dead"

\* What redis GET returns for a key that was never SET.
NoTask ==
  [task_type |-> "none", status |-> "none", attempts |-> 0, max_attempts |-> 0,
   next_retry_at |-> None, last_error |-> "none",
   completed_at |-> None]

\* RetryTask as built by enqueue(); id is the key, payload and created_at
\* are never read by the queue and are left out.
RetryTask(type, max_att, next_retry) ==
  [task_type |-> type, status |-> PENDING, attempts |-> 0, max_attempts |-> max_att,
   next_retry_at |-> next_retry, last_error |-> "none",
   completed_at |-> None]

\* datetime.timestamp() of a naive datetime reads it as local time.
Timestamp(dt) == dt + TzShift

RECURSIVE Pow(_, _)
Pow(b, e) == IF e = 0 THEN 1 ELSE b * Pow(b, e - 1)

Min(a, b) == IF a <= b THEN a ELSE b

\* Mutant: the exponent is the attempt count, not the count minus one.
backoff_delay_late(attempts) ==
  Min(BASE_DELAY_SECONDS * Pow(BACKOFF_MULTIPLIER, attempts), MAX_DELAY_SECONDS)

\* delay = min(BASE * MULTIPLIER ** (attempts - 1), MAX)
backoff_delay(attempts) ==
  Min(BASE_DELAY_SECONDS * Pow(BACKOFF_MULTIPLIER, attempts - 1), MAX_DELAY_SECONDS)

\* Mutant: a task is due only strictly after its score.
InScoreRange_strict(score, lo, hi) == score # None /\ lo <= score /\ score < hi

\* ZRANGEBYSCORE's range test, both ends inclusive.
InScoreRange(score, lo, hi) == score # None /\ lo <= score /\ score <= hi

RECURSIVE SortByScore(_, _)
SortByScore(S, p) ==
  IF S = {} THEN <<>>
  ELSE LET t == CHOOSE x \in S :
                  \A y \in S : p[x] < p[y] \/ (p[x] = p[y] /\ x <= y)
       IN <<t>> \o SortByScore(S \ {t}, p)

\* redis.zrangebyscore(key, lo, hi, start=0, num=n)
zrangebyscore(p, lo, hi, n) ==
  LET all == SortByScore({t \in TaskIds : InScoreRange(p[t], lo, hi)}, p)
  IN SubSeq(all, 1, Min(n, Len(all)))

zadd(p, t, score) == [p EXCEPT ![t] = score]
zrem(p, t) == [p EXCEPT ![t] = None]
zcard(p) == Cardinality({t \in TaskIds : p[t] # None})

lpush(l, t) == <<t>> \o l

\* redis.lrem(key, 1, value): drops the first occurrence from the head.
RECURSIVE lrem1(_, _)
lrem1(l, t) ==
  IF l = <<>> THEN <<>>
  ELSE IF Head(l) = t THEN Tail(l)
  ELSE <<Head(l)>> \o lrem1(Tail(l), t)

InList(l, t) == \E i \in 1..Len(l) : l[i] = t

\* get_queue_stats()
get_queue_stats ==
  [pending |-> zcard(pending), processing |-> Cardinality(processing),
   dead_letter |-> Len(dead)]

(***************************************************************************)
(* Retry queue state machine.                                              *)
(***************************************************************************)
IdleWorker == [pc |-> "idle", now |-> None, batch |-> <<>>, task_id |-> None,
               task |-> NoTask, score |-> None, processed |-> 0, handled |-> 0,
               raised |-> "none"]
NoCall == [pc |-> "idle", task_id |-> None, task |-> NoTask, score |-> None,
           raised |-> "none"]

RQInit ==
  /\ utcnow = 0
  /\ tasks = [t \in TaskIds |-> NoTask]
  /\ pending = [t \in TaskIds |-> None]
  /\ processing = {}
  /\ dead = <<>>
  /\ handlers = TaskTypes
  /\ wk = [w \in Workers |-> IdleWorker]
  /\ enq = NoCall
  /\ rdl = NoCall
  /\ next_id = 0
  /\ h_inv = [t \in TaskIds |-> 0]
  /\ h_run = [t \in TaskIds |-> 0]
  /\ h_enq = [t \in TaskIds |-> [at |-> None, due |-> None]]
  /\ h_requeues = 0

\* enqueue() up to the first store call: the task is built, SET is awaited.
EnqueueStart(type, max_att, delay, limit) ==
  /\ enq.pc = "idle"
  /\ next_id < limit
  /\ LET id == next_id + 1
         next_retry == utcnow + delay
     IN /\ enq' = [pc |-> "set", task_id |-> id,
                   task |-> RetryTask(type, max_att, next_retry),
                   score |-> Timestamp(next_retry), raised |-> "none"]
        /\ h_enq' = [h_enq EXCEPT ![id] = [at |-> utcnow, due |-> utcnow + delay]]
  /\ next_id' = next_id + 1
  /\ UNCHANGED <<utcnow, tasks, pending, processing, dead, handlers, wk, rdl,
                 h_inv, h_run, h_requeues>>
  /\ UNCHANGED <<cbvars, obs>>

\* enqueue(): redis.set of the task record; ZADD is awaited next.
EnqueueSet ==
  /\ enq.pc = "set"
  /\ tasks' = [tasks EXCEPT ![enq.task_id] = enq.task]
  /\ enq' = [enq EXCEPT !.pc = "zadd"]
  /\ UNCHANGED <<utcnow, pending, processing, dead, handlers, wk, rdl, next_id,
                 h_inv, h_run, h_enq, h_requeues>>
  /\ UNCHANGED <<cbvars, obs>>

\* enqueue(): redis.zadd into the pending index; the id is returned.
EnqueueZAdd ==
  /\ enq.pc = "zadd"
  /\ pending' = zadd(pending, enq.task_id, enq.score)
  /\ h_run' = [h_run EXCEPT ![enq.task_id] = 0]
  /\ enq' = NoCall
  /\ UNCHANGED <<utcnow, tasks, processing, dead, handlers, wk, rdl, next_id,
                 h_inv, h_enq, h_requeues>>
  /\ UNCHANGED <<cbvars, obs>>

\* The for loop of process_pending moves to its next id, or returns.
NextInBatch(w, r) ==
  IF r.batch = <<>>
    THEN IdleWorker
    ELSE [r EXCEPT !.pc = "zrem", !.task_id = Head(r.batch), !.batch = Tail(r.batch),
                   !.task = NoTask, !.score = None]

\* process_pending(): now is read and the due ids are queried.
PPStart(w) ==
  /\ wk[w].pc = "idle"
  /\ LET ids == zrangebyscore(pending, 0, Timestamp(utcnow), BATCH_NUM)
     IN wk' = [wk EXCEPT ![w] =
                 NextInBatch(w, [IdleWorker EXCEPT !.now = utcnow, !.batch = ids])]
  /\ UNCHANGED <<utcnow, tasks, pending, processing, dead, handlers, enq, rdl,
                 next_id, h_inv, h_run, h_enq, h_requeues>>
  /\ UNCHANGED <<cbvars, obs>>

\* process_pending(): redis.zrem(PENDING_QUEUE, task_id); its result is unused.
PPZRem(w) ==
  /\ wk[w].pc = "zrem"
  /\ pending' = zrem(pending, wk[w].task_id)
  /\ wk' = [wk EXCEPT ![w].pc = "sadd"]
  /\ UNCHANGED <<utcnow, tasks, processing, dead, handlers, enq, rdl, next_id,
                 h_inv, h_run, h_enq, h_requeues>>
  /\ UNCHANGED <<cbvars, obs>>

\* process_pending(): redis.sadd(PROCESSING_SET, task_id).
PPSAdd(w) ==
  /\ wk[w].pc = "sadd"
  /\ processing' = processing \cup {wk[w].task_id}
  /\ wk' = [wk EXCEPT ![w].pc = "get"]
  /\ UNCHANGED <<utcnow, tasks, pending, dead, handlers, enq, rdl, next_id,
                 h_inv, h_run, h_enq, h_requeues>>
  /\ UNCHANGED <<cbvars, obs>>

\* _process_task(): get_task returns; without a task or a handler it returns
\* (and process_pending counts it), else attempts is incremented and the
\* handler is awaited.
PTGetTask(w) ==
  /\ wk[w].pc = "get"
  /\ LET id == wk[w].task_id
         task == tasks[id]
     IN IF task = NoTask \/ task.task_type \notin handlers
          THEN /\ wk' = [wk EXCEPT ![w].pc = "srem", ![w].processed = @ + 1]
               /\ UNCHANGED <<h_inv, h_run>>
          ELSE /\ wk' = [wk EXCEPT ![w].pc = "handler",
                                   ![w].handled = @ + 1,
                                   ![w].task = [task EXCEPT !.attempts = @ + 1,
                                                            !.status = PROCESSING]]
               /\ h_inv' = [h_inv EXCEPT ![id] = @ + 1]
               /\ h_run' = [h_run EXCEPT ![id] = @ + 1]
  /\ UNCHANGED <<utcnow, tasks, pending, processing, dead, handlers, enq, rdl,
                 next_id, h_enq, h_requeues>>
  /\ UNCHANGED <<cbvars, obs>>

\* Mutant: a handler that returned leaves the task to be retried.
after_success_retry(task, now) ==
  [task EXCEPT !.status = PENDING, !.completed_at = now]

\* The outcome _process_task decides on when the handler returned at time now.
after_success(task, now) ==
  [task EXCEPT !.status = COMPLETED, !.completed_at = now]

\* _process_task(): the handler returns; redis.set is awaited.
PTHandlerOk(w) ==
  /\ wk[w].pc = "handler"
  /\ wk' = [wk EXCEPT ![w].pc = "set",
                      ![w].task = after_success(@, utcnow)]
  /\ UNCHANGED <<utcnow, tasks, pending, processing, dead, handlers, enq, rdl,
                 next_id, h_inv, h_run, h_enq, h_requeues>>
  /\ UNCHANGED <<cbvars, obs>>

\* Mutant: the task is dead-lettered one attempt late.
after_failure_late(task, now) ==
  IF task.attempts > task.max_attempts
    THEN [task EXCEPT !.last_error = "error", !.status = DEAD]
    ELSE [task EXCEPT !.last_error = "error", !.status = PENDING,
                      !.next_retry_at = now + backoff_delay(task.attempts)]

\* The outcome _process_task decides on when the handler raised at time now.
after_failure(task, now) ==
  IF task.attempts >= task.max_attempts
    THEN [task EXCEPT !.last_error = "error", !.status = DEAD]
    ELSE [task EXCEPT !.last_error = "error", !.status = PENDING,
                      !.next_retry_at = now + backoff_delay(task.attempts)]

\* Mutant: the handler's exception is not caught and leaves process_pending.
PTHandlerFail_uncaught(w) ==
  /\ wk[w].pc = "handler"
  /\ wk' = [wk EXCEPT ![w] = [IdleWorker EXCEPT !.raised = "handler"]]
  /\ UNCHANGED <<utcnow, tasks, pending, processing, dead, handlers, enq, rdl,
                 next_id, h_inv, h_run, h_enq, h_requeues>>
  /\ UNCHANGED <<cbvars, obs>>

\* _process_task(): the handler raises; LPUSH or ZADD is awaited.
PTHandlerFail(w) ==
  /\ wk[w].pc = "handler"
  /\ LET task == after_failure(wk[w].task, utcnow)
     IN wk' = [wk EXCEPT ![w].task = task,
                         ![w].pc = IF task.status = DEAD THEN "lpush" ELSE "zadd",
                         ![w].score = IF task.status = DEAD THEN None
                                      ELSE Timestamp(task.next_retry_at)]
  /\ UNCHANGED <<utcnow, tasks, pending, processing, dead, handlers, enq, rdl,
                 next_id, h_inv, h_run, h_enq, h_requeues>>
  /\ UNCHANGED <<cbvars, obs>>

\* _process_task(): redis.lpush(DEAD_LETTER_QUEUE, task_id).
PTLPush(w) ==
  /\ wk[w].pc = "lpush"
  /\ dead' = lpush(dead, wk[w].task_id)
  /\ wk' = [wk EXCEPT ![w].pc = "set"]
  /\ UNCHANGED <<utcnow, tasks, pending, processing, handlers, enq, rdl, next_id,
                 h_inv, h_run, h_enq, h_requeues>>
  /\ UNCHANGED <<cbvars, obs>>

\* _process_task(): redis.zadd(PENDING_QUEUE, {task_id: next_retry}).
PTZAdd(w) ==
  /\ wk[w].pc = "zadd"
  /\ pending' = zadd(pending, wk[w].task_id, wk[w].score)
  /\ h_run' = [h_run EXCEPT ![wk[w].task_id] = 0]
  /\ wk' = [wk EXCEPT ![w].pc = "set"]
  /\ UNCHANGED <<utcnow, tasks, processing, dead, handlers, enq, rdl, next_id,
                 h_inv, h_enq, h_requeues>>
  /\ UNCHANGED <<cbvars, obs>>

\* _process_task(): redis.set of the updated record; process_pending counts
\* the task and awaits SREM.
PTSet(w) ==
  /\ wk[w].pc = "set"
  /\ tasks' = [tasks EXCEPT ![wk[w].task_id] = wk[w].task]
  /\ wk' = [wk EXCEPT ![w].pc = "srem", ![w].processed = @ + 1]
  /\ UNCHANGED <<utcnow, pending, processing, dead, handlers, enq, rdl, next_id,
                 h_inv, h_run, h_enq, h_requeues>>
  /\ UNCHANGED <<cbvars, obs>>

\* process_pending(): finally redis.srem(PROCESSING_SET, task_id), then the
\* next id of the batch or the return.
PPSRem(w) ==
  /\ wk[w].pc = "srem"
  /\ processing' = processing \ {wk[w].task_id}
  /\ wk' = [wk EXCEPT ![w] = NextInBatch(w, wk[w])]
  /\ UNCHANGED <<utcnow, tasks, pending, dead, handlers, enq, rdl, next_id,
                 h_inv, h_run, h_enq, h_requeues>>
  /\ UNCHANGED <<cbvars, obs>>

\* Mutant: any existing task is requeued, whatever its status.
rdl_applies_any(task) == task # NoTask

\* retry_dead_letter(): `if not task or task.status != TaskStatus.DEAD: return False`
rdl_applies(task) == task # NoTask /\ task.status = DEAD

\* retry_dead_letter(): get_task returns; False unless the task is DEAD.
RDLGet(t) ==
  /\ rdl.pc = "idle"
  /\ h_requeues < MaxRequeues
  /\ IF ~rdl_applies(tasks[t])
       THEN UNCHANGED rdl
       ELSE rdl' = [pc |-> "lrem", task_id |-> t, task |-> tasks[t], score |-> None,
                    raised |-> "none"]
  /\ UNCHANGED <<utcnow, tasks, pending, processing, dead, handlers, wk, enq,
                 next_id, h_inv, h_run, h_enq, h_requeues>>
  /\ UNCHANGED <<cbvars, obs>>

\* retry_dead_letter(): redis.lrem, then the task is reset; SET is awaited.
RDLLRem ==
  /\ rdl.pc = "lrem"
  /\ dead' = lrem1(dead, rdl.task_id)
  /\ rdl' = [rdl EXCEPT !.pc = "set",
                        !.task = [@ EXCEPT !.status = PENDING, !.attempts = 0,
                                           !.next_retry_at = utcnow]]
  /\ UNCHANGED <<utcnow, tasks, pending, processing, handlers, wk, enq, next_id,
                 h_inv, h_run, h_enq, h_requeues>>
  /\ UNCHANGED <<cbvars, obs>>

\* retry_dead_letter(): redis.set; the ZADD score is read off the clock.
RDLSet ==
  /\ rdl.pc = "set"
  /\ tasks' = [tasks EXCEPT ![rdl.task_id] = rdl.task]
  /\ rdl' = [rdl EXCEPT !.pc = "zadd", !.score = Timestamp(utcnow)]
  /\ h_inv' = [h_inv EXCEPT ![rdl.task_id] = 0]
  /\ h_requeues' = h_requeues + 1
  /\ UNCHANGED <<utcnow, pending, processing, dead, handlers, wk, enq, next_id,
                 h_run, h_enq>>
  /\ UNCHANGED <<cbvars, obs>>

\* retry_dead_letter(): redis.zadd; True is returned.
RDLZAdd ==
  /\ rdl.pc = "zadd"
  /\ pending' = zadd(pending, rdl.task_id, rdl.score)
  /\ h_run' = [h_run EXCEPT ![rdl.task_id] = 0]
  /\ rdl' = NoCall
  /\ UNCHANGED <<utcnow, tasks, processing, dead, handlers, wk, enq, next_id,
                 h_inv, h_enq, h_requeues>>
  /\ UNCHANGED <<cbvars, obs>>

\* Time passes.
RQTick ==
  /\ utcnow < MaxTime
  /\ utcnow' = utcnow + TickSeconds
  /\ UNCHANGED <<tasks, pending, processing, dead, handlers, wk, enq, rdl,
                 next_id, h_inv, h_run, h_enq, h_requeues>>
  /\ UNCHANGED <<cbvars, obs>>

Enqueue ==
  \E type \in TaskTypes, max_att \in 1..MaxMaxAttempts, delay \in Delays :
    EnqueueStart(type, max_att, delay, MaxTasks)

\* enqueue() does not look at the handlers: any task type is accepted.
EnqueueAny ==
  \E type \in AllTaskTypes, max_att \in 1..MaxMaxAttempts, delay \in Delays :
    EnqueueStart(type, max_att, delay, MaxTasks)

\* register_handler(task_type, handler)
RegisterHandler(type) ==
  /\ type \notin handlers
  /\ handlers' = handlers \cup {type}
  /\ UNCHANGED <<utcnow, tasks, pending, processing, dead, wk, enq, rdl,
                 next_id, h_inv, h_run, h_enq, h_requeues>>
  /\ UNCHANGED <<cbvars, obs>>

\* The same with the smaller bound on the number of tasks.
EnqueueSmall ==
  \E type \in TaskTypes, max_att \in 1..MaxMaxAttempts, delay \in Delays :
    EnqueueStart(type, max_att, delay, MaxTasksSmall)

RQNext ==
  \/ EnqueueSmall
  \/ EnqueueSet
  \/ EnqueueZAdd
  \/ \E w \in Workers : PPStart(w)
  \/ \E w \in Workers : PPZRem(w)
  \/ \E w \in Workers : PPSAdd(w)
  \/ \E w \in Workers : PTGetTask(w)
  \/ \E w \in Workers : PTHandlerOk(w)
  \/ \E w \in Workers : PTHandlerFail(w)
  \/ \E w \in Workers : PTLPush(w)
  \/ \E w \in Workers : PTZAdd(w)
  \/ \E w \in Workers : PTSet(w)
  \/ \E w \in Workers : PPSRem(w)
  \/ \E t \in TaskIds : RDLGet(t)
  \/ RDLLRem
  \/ RDLSet
  \/ RDLZAdd
  \/ RQTick

\* A single worker polls the store.
RQNext1 ==
  \/ Enqueue
  \/ EnqueueSet
  \/ EnqueueZAdd
  \/ \E w \in Workers1 : PPStart(w)
  \/ \E w \in Workers1 : PPZRem(w)
  \/ \E w \in Workers1 : PPSAdd(w)
  \/ \E w \in Workers1 : PTGetTask(w)
  \/ \E w \in Workers1 : PTHandlerOk(w)
  \/ \E w \in Workers1 : PTHandlerFail(w)
  \/ \E w \in Workers1 : PTLPush(w)
  \/ \E w \in Workers1 : PTZAdd(w)
  \/ \E w \in Workers1 : PTSet(w)
  \/ \E w \in Workers1 : PPSRem(w)
  \/ \E t \in TaskIds : RDLGet(t)
  \/ RDLLRem
  \/ RDLSet
  \/ RDLZAdd
  \/ RQTick

\* A single worker; some task types get their handler late or never.
RQNextU ==
  \/ EnqueueAny
  \/ EnqueueSet
  \/ EnqueueZAdd
  \/ \E type \in AllTaskTypes : RegisterHandler(type)
  \/ \E w \in Workers1 : PPStart(w)
  \/ \E w \in Workers1 : PPZRem(w)
  \/ \E w \in Workers1 : PPSAdd(w)
  \/ \E w \in Workers1 : PTGetTask(w)
  \/ \E w \in Workers1 : PTHandlerOk(w)
  \/ \E w \in Workers1 : PTHandlerFail(w)
  \/ \E w \in Workers1 : PTLPush(w)
  \/ \E w \in Workers1 : PTZAdd(w)
  \/ \E w \in Workers1 : PTSet(w)
  \/ \E w \in Workers1 : PPSRem(w)
  \/ \E t \in TaskIds : RDLGet(t)
  \/ RDLLRem
  \/ RDLSet
  \/ RDLZAdd
  \/ RQTick

(***************************************************************************)
(* The store fails: the awaited redis call raises (redis.RedisError).      *)
(***************************************************************************)
\* process_pending() ends with the exception that store call op raised:
\* nothing is returned.
Raised(op) == [IdleWorker EXCEPT !.raised = op]

\* enqueue(): redis.set raises; enqueue has no handler for it.
EnqueueSetFail ==
  /\ enq.pc = "set"
  /\ enq' = [NoCall EXCEPT !.raised = "set"]
  /\ UNCHANGED <<utcnow, tasks, pending, processing, dead, handlers, wk, rdl,
                 next_id, h_inv, h_run, h_enq, h_requeues>>
  /\ UNCHANGED <<cbvars, obs>>

\* enqueue(): redis.zadd raises after the record was written.
EnqueueZAddFail ==
  /\ enq.pc = "zadd"
  /\ enq' = [NoCall EXCEPT !.raised = "zadd"]
  /\ UNCHANGED <<utcnow, tasks, pending, processing, dead, handlers, wk, rdl,
                 next_id, h_inv, h_run, h_enq, h_requeues>>
  /\ UNCHANGED <<cbvars, obs>>

\* process_pending(): connect() or zrangebyscore raises, outside any try.
PPStartFail(w) ==
  /\ wk[w].pc = "idle"
  /\ wk' = [wk EXCEPT ![w] = Raised("zrangebyscore")]
  /\ UNCHANGED <<utcnow, tasks, pending, processing, dead, handlers, enq, rdl,
                 next_id, h_inv, h_run, h_enq, h_requeues>>
  /\ UNCHANGED <<cbvars, obs>>

\* process_pending(): zrem raises, outside the try.
PPZRemFail(w) ==
  /\ wk[w].pc = "zrem"
  /\ wk' = [wk EXCEPT ![w] = Raised("zrem")]
  /\ UNCHANGED <<utcnow, tasks, pending, processing, dead, handlers, enq, rdl,
                 next_id, h_inv, h_run, h_enq, h_requeues>>
  /\ UNCHANGED <<cbvars, obs>>

\* process_pending(): sadd raises, outside the try; the id is already off the index.
PPSAddFail(w) ==
  /\ wk[w].pc = "sadd"
  /\ wk' = [wk EXCEPT ![w] = Raised("sadd")]
  /\ UNCHANGED <<utcnow, tasks, pending, processing, dead, handlers, enq, rdl,
                 next_id, h_inv, h_run, h_enq, h_requeues>>
  /\ UNCHANGED <<cbvars, obs>>

\* _process_task(): redis.get raises; process_pending's except Exception logs it
\* and the finally runs.
PTGetTaskFail(w) ==
  /\ wk[w].pc = "get"
  /\ wk' = [wk EXCEPT ![w].pc = "srem"]
  /\ UNCHANGED <<utcnow, tasks, pending, processing, dead, handlers, enq, rdl,
                 next_id, h_inv, h_run, h_enq, h_requeues>>
  /\ UNCHANGED <<cbvars, obs>>

\* _process_task(): lpush raises inside the except block; caught by
\* process_pending.
PTLPushFail(w) ==
  /\ wk[w].pc = "lpush"
  /\ wk' = [wk EXCEPT ![w].pc = "srem"]
  /\ UNCHANGED <<utcnow, tasks, pending, processing, dead, handlers, enq, rdl,
                 next_id, h_inv, h_run, h_enq, h_requeues>>
  /\ UNCHANGED <<cbvars, obs>>

\* _process_task(): zadd raises inside the except block; caught by
\* process_pending.
PTZAddFail(w) ==
  /\ wk[w].pc = "zadd"
  /\ wk' = [wk EXCEPT ![w].pc = "srem"]
  /\ UNCHANGED <<utcnow, tasks, pending, processing, dead, handlers, enq, rdl,
                 next_id, h_inv, h_run, h_enq, h_requeues>>
  /\ UNCHANGED <<cbvars, obs>>

\* _process_task(): the final redis.set raises; caught by process_pending, the
\* task is not counted.
PTSetFail(w) ==
  /\ wk[w].pc = "set"
  /\ wk' = [wk EXCEPT ![w].pc = "srem"]
  /\ UNCHANGED <<utcnow, tasks, pending, processing, dead, handlers, enq, rdl,
                 next_id, h_inv, h_run, h_enq, h_requeues>>
  /\ UNCHANGED <<cbvars, obs>>

\* process_pending(): srem raises inside the finally: the exception leaves
\* process_pending.
PPSRemFail(w) ==
  /\ wk[w].pc = "srem"
  /\ wk' = [wk EXCEPT ![w] = Raised("srem")]
  /\ UNCHANGED <<utcnow, tasks, pending, processing, dead, handlers, enq, rdl,
                 next_id, h_inv, h_run, h_enq, h_requeues>>
  /\ UNCHANGED <<cbvars, obs>>

StoreFails(w) ==
  \/ PPStartFail(w) \/ PPZRemFail(w) \/ PPSAddFail(w) \/ PTGetTaskFail(w)
  \/ PTLPushFail(w) \/ PTZAddFail(w) \/ PTSetFail(w) \/ PPSRemFail(w)

\* A single worker and one task, with a store that may fail at any call.
RQNextF ==
  \/ EnqueueSmall
  \/ EnqueueSet
  \/ EnqueueZAdd
  \/ EnqueueSetFail
  \/ EnqueueZAddFail
  \/ \E w \in Workers1 : PPStart(w)
  \/ \E w \in Workers1 : PPZRem(w)
  \/ \E w \in Workers1 : PPSAdd(w)
  \/ \E w \in Workers1 : PTGetTask(w)
  \/ \E w \in Workers1 : PTHandlerOk(w)
  \/ \E w \in Workers1 : PTHandlerFail(w)
  \/ \E w \in Workers1 : PTLPush(w)
  \/ \E w \in Workers1 : PTZAdd(w)
  \/ \E w \in Workers1 : PTSet(w)
  \/ \E w \in Workers1 : PPSRem(w)
  \/ \E w \in Workers1 : PPStartFail(w)
  \/ \E w \in Workers1 : PPZRemFail(w)
  \/ \E w \in Workers1 : PPSAddFail(w)
  \/ \E w \in Workers1 : PTGetTaskFail(w)
  \/ \E w \in Workers1 : PTLPushFail(w)
  \/ \E w \in Workers1 : PTZAddFail(w)
  \/ \E w \in Workers1 : PTSetFail(w)
  \/ \E w \in Workers1 : PPSRemFail(w)
  \/ \E t \in TaskIds : RDLGet(t)
  \/ RDLLRem
  \/ RDLSet
  \/ RDLZAdd
  \/ RQTick

vars == <<cbvars, rqvars, obs>>

CBNext ==
  \/ \E c \in Callers : CallRejected(c)
  \/ \E c \in Callers : CallAsync(c)
  \/ \E c \in Callers : AsyncSucceed(c)
  \/ \E c \in Callers : AsyncFail(c)
  \/ \E c \in Callers : AsyncTimeout(c)
  \/ \E c \in Callers : CallSyncOk(c)
  \/ \E c \in Callers : CallSyncFail(c)
  \/ CBTick

\* One caller at a time: a call() resolves before the next one starts.
CBNext1 ==
  \/ \E c \in Callers1 : CallRejected(c)
  \/ \E c \in Callers1 : CallAsync(c)
  \/ \E c \in Callers1 : AsyncSucceed(c)
  \/ \E c \in Callers1 : AsyncFail(c)
  \/ \E c \in Callers1 : AsyncTimeout(c)
  \/ \E c \in Callers1 : CallSyncOk(c)
  \/ \E c \in Callers1 : CallSyncFail(c)
  \/ CBTick

\* The callers also pass plain functions that outlast timeout_seconds.
CBNextSlow ==
  \/ CBNext
  \/ \E c \in Callers : CallSyncSlowOk(c)
  \/ \E c \in Callers : CallSyncSlowFail(c)

(***************************************************************************)
(* The observability interface.                                            *)
(***************************************************************************)
NoView ==
  [state |-> "none", failures |-> 0, successes |-> 0,
   consecutive_failures |-> 0, consecutive_successes |-> 0,
   last_failure |-> None, last_success |-> None]
NoStats ==
  [pc |-> "idle", pending |-> None, processing |-> None, dead_letter |-> None]
NoObs == [status |-> NoView, read_at |-> None, stats |-> NoStats]

\* Mutant: get_status runs the reset check of call() before it reports.
get_status_admit(b, t) ==
  LET b1 == call_admit(b, t) IN
  [breaker |-> b1,
   result |-> [state |-> b1.state,
               failures |-> b1.stats.failures,
               successes |-> b1.stats.successes,
               consecutive_failures |-> b1.stats.consecutive_failures,
               consecutive_successes |-> b1.stats.consecutive_successes,
               last_failure |-> b1.stats.last_failure_time,
               last_success |-> b1.stats.last_success_time]]

\* get_status() on breaker b at time t: the breaker it leaves behind and the
\* dict it returns (the constant name is left out); the clock is not read.
get_status(b, t) ==
  [breaker |-> b,
   result |-> [state |-> b.state,
               failures |-> b.stats.failures,
               successes |-> b.stats.successes,
               consecutive_failures |-> b.stats.consecutive_failures,
               consecutive_successes |-> b.stats.consecutive_successes,
               last_failure |-> b.stats.last_failure_time,
               last_success |-> b.stats.last_success_time]]

\* get_status(): synchronous, no lock taken.
GetStatus ==
  /\ LET r == get_status(breaker, clock)
     IN /\ breaker' = r.breaker
        /\ obs' = [obs EXCEPT !.status = r.result, !.read_at = clock]
  /\ UNCHANGED <<failure_threshold, success_threshold, clock, cpc, outcome,
                 invoked, started, h_streak, h_probe_succ, h_probe, h_probe_fail>>
  /\ UNCHANGED rqvars

\* get_queue_stats(): connect() and redis.zcard; SCARD is awaited next.
GQSZCard ==
  /\ obs.stats.pc \in {"idle", "done"}
  /\ obs' = [obs EXCEPT !.stats = [NoStats EXCEPT !.pc = "scard",
                                                  !.pending = zcard(pending)]]
  /\ UNCHANGED <<cbvars, rqvars>>

\* get_queue_stats(): redis.scard; LLEN is awaited next.
GQSSCard ==
  /\ obs.stats.pc = "scard"
  /\ obs' = [obs EXCEPT !.stats.pc = "llen",
                        !.stats.processing = Cardinality(processing)]
  /\ UNCHANGED <<cbvars, rqvars>>

\* get_queue_stats(): redis.llen; the three counts are returned.
GQSLLen ==
  /\ obs.stats.pc = "llen"
  /\ obs' = [obs EXCEPT !.stats.pc = "done", !.stats.dead_letter = Len(dead)]
  /\ UNCHANGED <<cbvars, rqvars>>

Init == CBInit /\ RQInit /\ obs = NoObs

SpecCB == Init /\ [][CBNext]_vars
SpecCB1 == Init /\ [][CBNext1]_vars
SpecCBSlow == Init /\ [][CBNextSlow]_vars
\* The queue does not touch the breaker: one breaker configuration is enough.
InitRQ ==
  /\ Init
  /\ failure_threshold = MaxFailureThreshold
  /\ success_threshold = MaxSuccessThreshold

SpecRQ == InitRQ /\ [][RQNext]_vars
SpecRQ1 == InitRQ /\ [][RQNext1]_vars
SpecRQU == InitRQ /\ [][RQNextU]_vars
SpecRQF == InitRQ /\ [][RQNextF]_vars

(***************************************************************************)
(* The backoff schedule on its own: one task, enqueued at time 0 with no   *)
(* delay and any max_attempts, whose first attempts - 1 runs all failed,   *)
(* is at its handler for run number attempts, and that run fails too.      *)
(***************************************************************************)
\* The time at which run number attempts is due when every earlier run
\* failed as soon as it was due.
RECURSIVE DueAt(_)
DueAt(attempts) ==
  IF attempts = 1 THEN 0
  ELSE DueAt(attempts - 1) + backoff_delay(attempts - 1)

InitBackoff ==
  /\ CBInit
  /\ obs = NoObs
  /\ failure_threshold = MaxFailureThreshold
  /\ success_threshold = MaxSuccessThreshold
  /\ \E attempts \in 1..MaxBackoffAttempts,
        max_att \in 2..(MaxBackoffAttempts + 1),
        late \in {0, TickSeconds} :
       /\ attempts < max_att
       /\ LET stored == [RetryTask("send", max_att, DueAt(attempts))
                           EXCEPT !.attempts = attempts - 1,
                                  !.last_error =
                                     IF attempts = 1 THEN "none" ELSE "error"]
              local == [stored EXCEPT !.attempts = attempts,
                                      !.status = PROCESSING]
          IN /\ utcnow = DueAt(attempts) + late
             /\ tasks = [t \in TaskIds |-> IF t = 1 THEN stored ELSE NoTask]
             /\ wk = [w \in Workers |->
                        IF w = 1
                          THEN [IdleWorker EXCEPT !.pc = "handler",
                                                  !.now = DueAt(attempts) + late,
                                                  !.task_id = 1,
                                                  !.task = local,
                                                  !.handled = 1]
                          ELSE IdleWorker]
             /\ h_inv = [t \in TaskIds |-> IF t = 1 THEN attempts ELSE 0]
  /\ pending = [t \in TaskIds |-> None]
  /\ processing = {1}
  /\ dead = <<>>
  /\ handlers = TaskTypes
  /\ enq = NoCall
  /\ rdl = NoCall
  /\ next_id = 1
  /\ h_run = [t \in TaskIds |-> IF t = 1 THEN 1 ELSE 0]
  /\ h_enq = [t \in TaskIds |->
                IF t = 1 THEN [at |-> 0, due |-> 0] ELSE [at |-> None, due |-> None]]
  /\ h_requeues = 0

BackoffNext ==
  \/ PTHandlerFail(1)
  \/ PTZAdd(1)
  \/ PTSet(1)
  \/ PPSRem(1)

SpecBackoff == InitBackoff /\ [][BackoffNext]_vars

(***************************************************************************)
(* Circuit breaker properties.                                             *)
(***************************************************************************)
\* Any way a call() can start, and the ways an invoked operation resolves.
CallStep(c) == CallRejected(c) \/ CallAsync(c) \/ CallSyncOk(c) \/ CallSyncFail(c)
FailStep(c) == AsyncFail(c) \/ AsyncTimeout(c)
CoolingDown == breaker.state = OPEN /\ clock - breaker.state_changed_at < ResetTimeout
Rejected(c) == outcome'[c] = "CircuitOpenError" /\ invoked' = invoked

\* C2: while the breaker is OPEN and less than reset_timeout has elapsed since
\* state_changed_at, every call() raises CircuitOpenError, does not invoke the
\* operation, and leaves state, state_changed_at and all stats unchanged.
C2_OpenRejects ==
  [][\A c \in Callers :
       (CoolingDown /\ CallStep(c)) => (Rejected(c) /\ breaker' = breaker)]_vars

C2_Witness ==
  \E c \in Callers :
    outcome[c] = "CircuitOpenError" /\ CoolingDown /\ breaker.stats.failures > 0

\* C3: with sequential callers a CLOSED breaker stays CLOSED while fewer than
\* failure_threshold calls in a row have failed, is OPEN once failure_threshold
\* calls in a row have failed, and the next call before reset_timeout elapses
\* is rejected with CircuitOpenError without invoking the operation.
C3_ClosedOpensAtThreshold ==
  /\ [](breaker.state = CLOSED => h_streak < failure_threshold)
  /\ [][\A c \in Callers1 :
          /\ (breaker.state = CLOSED /\ (FailStep(c) \/ CallSyncFail(c)))
               => (breaker'.state = (IF h_streak' >= failure_threshold THEN OPEN ELSE CLOSED))
          /\ (breaker.state = CLOSED /\ (AsyncSucceed(c) \/ CallSyncOk(c)))
               => breaker'.state = CLOSED
          /\ (CoolingDown /\ CallStep(c)) => Rejected(c)]_vars

C3_Witness ==
  /\ breaker.state = OPEN
  /\ h_streak = failure_threshold
  /\ failure_threshold = MaxFailureThreshold
  /\ breaker.stats.successes > 0
  /\ outcome[1] = "CircuitOpenError"
  /\ h_probe_fail.at = None

\* C4 as stated: once an OPEN breaker's reset_timeout has elapsed the next
\* call() moves it to HALF_OPEN and invokes the operation; when that probe
\* fails the breaker is OPEN with state_changed_at the time of the failure, and
\* calls are rejected until reset_timeout has elapsed from that failure.
ProbeAdmitted(c) ==
  (breaker.state = OPEN /\ ~CoolingDown /\ CallStep(c))
     => /\ invoked' = invoked + 1
        /\ CallAsync(c) => breaker'.state = HALF_OPEN /\ breaker'.state_changed_at = clock
        /\ CallSyncFail(c) => breaker'.state = OPEN /\ breaker'.state_changed_at = clock
        /\ CallSyncOk(c) => breaker'.state \in {HALF_OPEN, CLOSED}

C4_ProbeFailureReopens ==
  [][\A c \in Callers :
       /\ ProbeAdmitted(c)
       /\ (c \in h_probe /\ FailStep(c))
            => (breaker'.state = OPEN /\ breaker'.state_changed_at = clock)
       /\ (h_probe_fail.at # None /\ clock - h_probe_fail.at < ResetTimeout /\ CallStep(c))
            => Rejected(c)]_vars

\* C4 amended: the same, for a probe that fails while the breaker is still
\* HALF_OPEN.
C4_ProbeFailureInHalfOpenReopens ==
  [][\A c \in Callers :
       /\ ProbeAdmitted(c)
       /\ (c \in h_probe /\ breaker.state = HALF_OPEN /\ FailStep(c))
            => (breaker'.state = OPEN /\ breaker'.state_changed_at = clock)
       /\ (h_probe_fail.at # None /\ h_probe_fail.state = HALF_OPEN
             /\ clock - h_probe_fail.at < ResetTimeout /\ CallStep(c))
            => Rejected(c)]_vars

C4_Witness ==
  /\ h_probe_fail.at # None
  /\ h_probe_fail.state = HALF_OPEN
  /\ failure_threshold > 1
  /\ breaker.state = OPEN
  /\ breaker.state_changed_at = h_probe_fail.at
  /\ clock > h_probe_fail.at
  /\ \E c \in Callers : outcome[c] = "CircuitOpenError"

\* C5: with sequential callers a HALF_OPEN breaker stays HALF_OPEN while fewer
\* than success_threshold probes in a row have succeeded and becomes CLOSED
\* exactly at the success_threshold-th, with consecutive_failures = 0.
C5_HalfOpenClosesAtThreshold ==
  /\ [](breaker.state = HALF_OPEN => h_probe_succ < success_threshold)
  /\ [][\A c \in Callers1 :
          /\ (breaker.state = HALF_OPEN /\ AsyncSucceed(c))
               => (breaker'.state = (IF h_probe_succ' = success_threshold THEN CLOSED ELSE HALF_OPEN))
          /\ (call_admit(breaker, clock).state = HALF_OPEN /\ CallSyncOk(c))
               => (breaker'.state = (IF h_probe_succ' = success_threshold THEN CLOSED ELSE HALF_OPEN))
          /\ (breaker.state = HALF_OPEN /\ breaker'.state = CLOSED)
               => (AsyncSucceed(c) \/ CallSyncOk(c))
          /\ (breaker.state # CLOSED /\ breaker'.state = CLOSED)
               => breaker'.stats.consecutive_failures = 0]_vars

C5_Witness ==
  /\ breaker.state = CLOSED
  /\ success_threshold = MaxSuccessThreshold
  /\ h_probe_succ = success_threshold
  /\ breaker.stats.failures > 0
  /\ breaker.stats.consecutive_failures = 0

(***************************************************************************)
(* Retry queue: fairness of the worker loop, the calls in progress and     *)
(* the clock.                                                              *)
(***************************************************************************)
WorkerStep(w) ==
  \/ PPStart(w) \/ PPZRem(w) \/ PPSAdd(w) \/ PTGetTask(w) \/ PTHandlerOk(w)
  \/ PTHandlerFail(w) \/ PTLPush(w) \/ PTZAdd(w) \/ PTSet(w) \/ PPSRem(w)

RQFairness ==
  /\ \A w \in Workers : WF_vars(WorkerStep(w))
  /\ WF_vars(EnqueueSet \/ EnqueueZAdd)
  /\ WF_vars(RDLLRem \/ RDLSet \/ RDLZAdd)
  /\ WF_vars(RQTick)

FairSpecRQ == SpecRQ /\ RQFairness

\* One worker loop, the smaller bound on the number of tasks.
RQNextSmall1 ==
  \/ EnqueueSmall
  \/ EnqueueSet
  \/ EnqueueZAdd
  \/ \E w \in Workers1 : WorkerStep(w)
  \/ \E t \in TaskIds : RDLGet(t)
  \/ RDLLRem
  \/ RDLSet
  \/ RDLZAdd
  \/ RQTick

FairSpecRQ1 == InitRQ /\ [][RQNextSmall1]_vars /\ RQFairness

\* The worker's process dies inside process_pending between the claim of an
\* id (zrem) and the bookkeeping of its outcome: before sadd, before the
\* record is loaded, or while the handler runs.  Nothing of the call runs
\* any more, the finally clause included.
Crash(w) ==
  /\ wk[w].pc \in {"sadd", "get", "handler"}
  /\ wk' = [wk EXCEPT ![w].pc = "crashed"]
  /\ UNCHANGED <<utcnow, tasks, pending, processing, dead, handlers, enq, rdl,
                 next_id, h_inv, h_run, h_enq, h_requeues>>
  /\ UNCHANGED <<cbvars, obs>>

\* No other worker is inside process_pending: the others are between two
\* polls of retry_worker or dead.
Alone(w) == \A v \in Workers \ {w} : wk[v].pc \in {"idle", "crashed"}

\* Workers that poll one at a time and may die; a dead worker's successor
\* keeps polling the same store.
RQNextCrash ==
  \/ Enqueue
  \/ EnqueueSet
  \/ EnqueueZAdd
  \/ \E w \in Workers : Alone(w) /\ PPStart(w)
  \/ \E w \in Workers : PPZRem(w)
  \/ \E w \in Workers : PPSAdd(w)
  \/ \E w \in Workers : PTGetTask(w)
  \/ \E w \in Workers : PTHandlerOk(w)
  \/ \E w \in Workers : PTHandlerFail(w)
  \/ \E w \in Workers : PTLPush(w)
  \/ \E w \in Workers : PTZAdd(w)
  \/ \E w \in Workers : PTSet(w)
  \/ \E w \in Workers : PPSRem(w)
  \/ \E w \in Workers : Crash(w)
  \/ \E t \in TaskIds : RDLGet(t)
  \/ RDLLRem
  \/ RDLSet
  \/ RDLZAdd
  \/ RQTick

SpecRQCrash == InitRQ /\ [][RQNextCrash]_vars

\* The breaker and the queue share no state: a run polls one of them, among
\* the calls of one caller or the steps of one worker on one task.
BreakerUntouched == invoked = 0 /\ clock = 0 /\ obs.status = NoView
QueueUntouched == next_id = 0 /\ utcnow = 0 /\ obs.stats = NoStats

ObsNext ==
  \/ \E c \in Callers1 : QueueUntouched /\ CallRejected(c)
  \/ \E c \in Callers1 : QueueUntouched /\ CallAsync(c)
  \/ \E c \in Callers1 : QueueUntouched /\ AsyncSucceed(c)
  \/ \E c \in Callers1 : QueueUntouched /\ AsyncFail(c)
  \/ \E c \in Callers1 : QueueUntouched /\ AsyncTimeout(c)
  \/ \E c \in Callers1 : QueueUntouched /\ CallSyncOk(c)
  \/ \E c \in Callers1 : QueueUntouched /\ CallSyncFail(c)
  \/ QueueUntouched /\ CBTick
  \/ QueueUntouched /\ GetStatus
  \/ BreakerUntouched /\ EnqueueSmall
  \/ BreakerUntouched /\ EnqueueSet
  \/ BreakerUntouched /\ EnqueueZAdd
  \/ \E w \in Workers1 : BreakerUntouched /\ PPStart(w)
  \/ \E w \in Workers1 : BreakerUntouched /\ PPZRem(w)
  \/ \E w \in Workers1 : BreakerUntouched /\ PPSAdd(w)
  \/ \E w \in Workers1 : BreakerUntouched /\ PTGetTask(w)
  \/ \E w \in Workers1 : BreakerUntouched /\ PTHandlerOk(w)
  \/ \E w \in Workers1 : BreakerUntouched /\ PTHandlerFail(w)
  \/ \E w \in Workers1 : BreakerUntouched /\ PTLPush(w)
  \/ \E w \in Workers1 : BreakerUntouched /\ PTZAdd(w)
  \/ \E w \in Workers1 : BreakerUntouched /\ PTSet(w)
  \/ \E w \in Workers1 : BreakerUntouched /\ PPSRem(w)
  \/ \E t \in TaskIds : BreakerUntouched /\ RDLGet(t)
  \/ BreakerUntouched /\ RDLLRem
  \/ BreakerUntouched /\ RDLSet
  \/ BreakerUntouched /\ RDLZAdd
  \/ BreakerUntouched /\ RQTick
  \/ BreakerUntouched /\ GQSZCard
  \/ BreakerUntouched /\ GQSSCard
  \/ BreakerUntouched /\ GQSLLen

SpecObs == InitRQ /\ [][ObsNext]_vars

(***************************************************************************)
(* Retry queue properties.                                                 *)
(***************************************************************************)
Created(t) == tasks[t] # NoTask
Holds(w, t) == wk[w].pc # "idle" /\ wk[w].task_id = t
InBatch(w, t) == InList(wk[w].batch, t)
InCall(t) == enq.task_id = t \/ rdl.task_id = t

\* C1: no task id is claimed by two concurrent process_pending calls: a task
\* that was put into the pending index once has its handler invoked by at
\* most one of them.
C1_NoDoubleClaim ==
  \A t \in TaskIds : h_run[t] <= 1

\* C6: single worker, handler failing every time: the handler of a task with
\* max_attempts = N is invoked at most N times; between calls the task is,
\* after k < N failures, PENDING with attempts = k and in the pending index,
\* and after N failures DEAD with attempts = N, in the dead-letter list and
\* not in the pending index (so not counted in get_queue_stats().pending).
AlwaysFailed(t) ==
  /\ tasks[t].status # COMPLETED
  /\ \A w \in Workers : Holds(w, t) => wk[w].task.status # COMPLETED

C6_FailingTaskDiesAfterN ==
  \A t \in TaskIds :
    (Created(t) /\ AlwaysFailed(t)) =>
      /\ h_inv[t] <= tasks[t].max_attempts
      /\ (~InCall(t) /\ \A w \in Workers : ~Holds(w, t)) =>
           IF h_inv[t] < tasks[t].max_attempts
             THEN /\ tasks[t].status = PENDING
                  /\ tasks[t].attempts = h_inv[t]
                  /\ pending[t] # None
                  /\ ~InList(dead, t)
             ELSE /\ tasks[t].status = DEAD
                  /\ tasks[t].attempts = tasks[t].max_attempts
                  /\ InList(dead, t)
                  /\ pending[t] = None
                  /\ get_queue_stats.pending
                       = Cardinality({u \in TaskIds \ {t} : pending[u] # None})

C6_Witness ==
  \E t \in TaskIds :
    /\ tasks[t].status = DEAD
    /\ tasks[t].max_attempts = MaxMaxAttempts
    /\ h_inv[t] = MaxMaxAttempts
    /\ h_enq[t].due = h_enq[t].at
    /\ InList(dead, t)
    /\ wk[1].pc = "idle"

\* C7: for any number of workers, the handler of a task is invoked at most
\* max_attempts times between its enqueue (or its last retry_dead_letter)
\* and its dead-lettering.
C7_InvocationsBounded ==
  \A t \in TaskIds :
    (Created(t) /\ ~InList(dead, t)) => h_inv[t] <= tasks[t].max_attempts

\* C8: enqueue leaves the task PENDING with attempts = 0 and invokes no
\* handler; a process_pending call that starts before the enqueue time + delay
\* never passes the task to its handler; one that starts at or after it gets
\* the task in its batch.
C8_DelayRespected ==
  /\ [](\A w \in Workers, t \in TaskIds :
          (Holds(w, t) \/ InBatch(w, t)) => wk[w].now >= h_enq[t].due)
  /\ [][/\ (EnqueueSet \/ EnqueueZAdd \/ Enqueue) => h_inv' = h_inv
        /\ EnqueueZAdd =>
             /\ tasks'[enq.task_id].status = PENDING
             /\ tasks'[enq.task_id].attempts = 0
        /\ \A w \in Workers, t \in TaskIds :
             (PPStart(w) /\ pending[t] # None /\ h_inv[t] = 0
                /\ utcnow >= h_enq[t].due)
               => (Holds(w, t) \/ InBatch(w, t))']_vars

C8_Witness ==
  \E t \in TaskIds :
    /\ h_enq[t].due > h_enq[t].at
    /\ wk[1].pc = "handler"
    /\ wk[1].task_id = t
    /\ wk[1].now = h_enq[t].due
    /\ wk[1].task.attempts = 1

\* C9: with handlers registered, no crash and the store available, under
\* worker loops that keep polling while time advances every enqueued task
\* eventually is COMPLETED or DEAD (up to the model's time horizon: a task
\* waiting in the pending index for a time beyond MaxTime is not required to
\* run).
Terminal(t) == tasks[t].status \in {COMPLETED, DEAD}
BeyondHorizon(t) ==
  utcnow >= MaxTime /\ pending[t] # None /\ pending[t] > Timestamp(utcnow)

C9_EventuallyTerminal ==
  \A t \in TaskIds : [](Created(t) => <>(Terminal(t) \/ BeyondHorizon(t)))

\* Supporting lemma for C9: a task persisted as PENDING that is in neither the
\* pending index nor any call in progress stays so whatever happens next, at
\* any time: no operation of the queue can reach it again.
Stranded(t) ==
  /\ tasks[t].status = PENDING
  /\ pending[t] = None
  /\ ~InCall(t)
  /\ \A w \in Workers : ~Holds(w, t) /\ ~InBatch(w, t)

StrandedStaysStranded ==
  [][\A t \in TaskIds : Stranded(t) => Stranded(t)']_vars

StrandedReached ==
  \E t \in TaskIds : Stranded(t) /\ utcnow < MaxTime

\* C10: for any number of workers, every persisted task with status DEAD has
\* attempts = max_attempts.
C10_DeadHasMaxAttempts ==
  \A t \in TaskIds :
    tasks[t].status = DEAD => tasks[t].attempts = tasks[t].max_attempts

\* C11: in every reachable state, every persisted task whose status is PENDING
\* has its id in the pending index, scored by its next_retry_at.  The record
\* an enqueue() or retry_dead_letter() call has written while its own ZADD is
\* still awaited is left out of the statement.
Indexed(t) == pending[t] = Timestamp(tasks[t].next_retry_at)

C11_PendingIsIndexed ==
  \A t \in TaskIds :
    (tasks[t].status = PENDING /\ ~InCall(t)) => Indexed(t)

\* The record is PENDING and out of the index while its handler runs.
PendingWhileHandled ==
  \E t \in TaskIds :
    /\ tasks[t].status = PENDING
    /\ pending[t] = None
    /\ wk[1].pc = "handler" /\ wk[1].task_id = t
    /\ wk[1].task.status = PROCESSING

\* The index score of a requeued task is not the timestamp of its next_retry_at.
RequeuedScoreDiffers ==
  \E t \in TaskIds :
    /\ tasks[t].status = PENDING /\ ~InCall(t) /\ ~Holds(1, t)
    /\ pending[t] # None /\ ~Indexed(t)

\* Worker w has claimed an existing task and _process_task has returned
\* without loading it into a handler: its type has no handler.
Unrouted(w) ==
  wk[w].pc = "srem" /\ wk[w].task = NoTask /\ Created(wk[w].task_id)

\* C12: when a claimed task's type has no registered handler, its attempts
\* count is not incremented, its id is not put back into the pending index,
\* and its id remains in the processing set after process_pending is done
\* with it.
C12_UnroutedStaysInProcessing ==
  [][\A w \in Workers1 :
       LET id == wk[w].task_id
       IN /\ (PTGetTask(w) /\ Created(id) /\ tasks[id].task_type \notin handlers)
               => (tasks' = tasks /\ pending' = pending /\ h_inv' = h_inv)
          /\ (Unrouted(w) /\ PPSRem(w))
               => /\ tasks'[id].attempts = tasks[id].attempts
                  /\ pending'[id] = None
                  /\ id \in processing']_vars

\* What the code leaves behind instead: the record says PENDING and the id is
\* in neither the pending index, the processing set nor the dead-letter list.
UnroutedDropped ==
  \E t \in TaskIds :
    /\ tasks[t].task_type \notin handlers
    /\ wk[1].pc = "idle"
    /\ Stranded(t)
    /\ tasks[t].attempts = 0
    /\ t \notin processing /\ ~InList(dead, t)

\* C13: a store operation that fails during enqueue or at any point of
\* process_pending (the due-task query, the claim, loading a task, persisting
\* a handler outcome) raises out of that call and is not caught in the queue.
C13_StoreErrorsPropagate ==
  [][/\ (EnqueueSetFail \/ EnqueueZAddFail) => enq'.raised # "none"
     /\ \A w \in Workers1 : StoreFails(w) => wk'[w].raised # "none"]_vars

\* What the code does instead: the handler succeeded, the redis.set of its
\* outcome failed, and process_pending has returned normally; the record
\* still says PENDING with no attempt made and the id is in no structure.
OutcomeLostSilently ==
  \E t \in TaskIds :
    /\ h_inv[t] = 1 /\ tasks[t].attempts = 0
    /\ wk[1].pc = "idle" /\ wk[1].raised = "none"
    /\ Stranded(t)
    /\ t \notin processing

\* Worker w is about to persist the outcome of a handler that raised.
FailedRun(w) == wk[w].pc = "set" /\ wk[w].task.status \in {PENDING, DEAD}
Exhausted(task) == task.attempts >= task.max_attempts

\* C14: an exception raised by a handler never leaves process_pending: the
\* call goes on and returns normally, last_error records the message, and the
\* task is rescheduled as PENDING when attempts < max_attempts and
\* dead-lettered when attempts >= max_attempts.
C14_HandlerErrorsHandled ==
  [][\A w \in Workers :
       LET id == wk[w].task_id
           task == wk[w].task
       IN /\ PTHandlerFail(w)
               => /\ wk'[w].raised = "none"
                  /\ wk'[w].pc = (IF Exhausted(task) THEN "lpush" ELSE "zadd")
                  /\ wk'[w].task.last_error = "error"
          /\ PTZAdd(w)
               => /\ ~Exhausted(task) /\ task.status = PENDING
                  /\ pending'[id] = Timestamp(task.next_retry_at)
          /\ PTLPush(w)
               => Exhausted(task) /\ task.status = DEAD /\ InList(dead', id)
          /\ (FailedRun(w) /\ PTSet(w))
               => /\ tasks'[id].last_error = "error"
                  /\ tasks'[id].status = (IF Exhausted(task) THEN DEAD ELSE PENDING)
          /\ PPSRem(w) => wk'[w].raised = "none"]_vars

\* process_pending has returned normally with one task rescheduled and one
\* dead-lettered after their handlers raised.
C14_Witness ==
  /\ wk[1].pc = "idle" /\ wk[1].raised = "none"
  /\ \E t \in TaskIds :
       /\ tasks[t].status = PENDING /\ tasks[t].last_error = "error"
       /\ tasks[t].attempts = 1 /\ pending[t] # None
  /\ \E t \in TaskIds :
       /\ tasks[t].status = DEAD /\ tasks[t].last_error = "error"
       /\ InList(dead, t)

\* The step on which process_pending returns its count.
Returns(w) == PPSRem(w) /\ wk[w].batch = <<>>

\* C15: process_pending returns exactly the number of claimed tasks whose
\* handler was invoked; a claimed task with no registered handler is not
\* counted.
C15_ReturnCountsHandled ==
  [][\A w \in Workers : Returns(w) => wk[w].processed = wk[w].handled]_vars

\* A call about to return 1 although no handler was invoked.
CountedUnrouted ==
  Unrouted(1) /\ wk[1].batch = <<>> /\ wk[1].processed = 1 /\ wk[1].handled = 0

\* A task retry_dead_letter has put back and no worker has picked up yet.
Requeued(t) ==
  /\ rdl.pc = "idle"
  /\ tasks[t].status = PENDING
  /\ tasks[t].attempts = 0 /\ tasks[t].last_error = "error"

\* C16: retry_dead_letter applies exactly when the task exists and its
\* persisted status is DEAD: it then sets attempts to 0, status to PENDING and
\* next_retry_at to now, removes the id from the dead-letter list, inserts it
\* into the pending index so that the very next process_pending claims it,
\* and returns true; otherwise it returns false and changes nothing.
C16_RequeueDeadOnly ==
  [][/\ \A t \in TaskIds :
          RDLGet(t)
            => /\ (rdl'.pc = "lrem") = (Created(t) /\ tasks[t].status = DEAD)
               /\ UNCHANGED <<tasks, pending, processing, dead>>
     /\ RDLLRem => rdl'.task.next_retry_at = utcnow
     /\ RDLZAdd
          => LET id == rdl.task_id
             IN /\ tasks'[id].status = PENDING
                /\ tasks'[id].attempts = 0
                /\ tasks'[id].next_retry_at <= utcnow
                /\ ~InList(dead', id)
                /\ InScoreRange(pending'[id], 0, Timestamp(utcnow))
                /\ rdl' = NoCall
     /\ \A w \in Workers, t \in TaskIds :
          (Requeued(t) /\ PPStart(w))
            => (wk'[w].task_id = t \/ InBatch(w, t)')]_vars

\* A requeued task has been claimed by the first process_pending after the
\* requeue and is at its handler again.
C16_Witness ==
  \E t \in TaskIds :
    /\ h_requeues = 1
    /\ tasks[t].status = PENDING /\ tasks[t].attempts = 0
    /\ tasks[t].last_error = "error"
    /\ ~InList(dead, t)
    /\ wk[1].pc = "handler" /\ wk[1].task_id = t /\ wk[1].task.attempts = 1

\* C17: with a single worker, a task whose handler succeeds is persisted as
\* COMPLETED with completed_at set, and once process_pending has returned its
\* id is in none of the pending index, the processing set and the dead-letter
\* list; COMPLETED is terminal: the handler is never invoked again for the
\* task and its record never changes.
C17_CompletedIsTerminal ==
  /\ [](\A t \in TaskIds :
          tasks[t].status = COMPLETED
            => /\ tasks[t].completed_at # None
               /\ wk[1].pc = "idle"
                    => /\ pending[t] = None
                       /\ t \notin processing
                       /\ ~InList(dead, t))
  /\ [][/\ \A t \in TaskIds :
             tasks[t].status = COMPLETED
               => (tasks'[t] = tasks[t] /\ h_inv'[t] = h_inv[t])
        /\ \A w \in Workers1 :
             (PTHandlerOk(w) /\ wk'[w].pc = "set")
               => /\ wk'[w].task.status = COMPLETED
                  /\ wk'[w].task.completed_at = utcnow
        /\ \A w \in Workers1 :
             (PTSet(w) /\ ~FailedRun(w))
               => tasks'[wk[w].task_id] = wk[w].task]_vars

\* A task that failed once and succeeded on its retry is COMPLETED and
\* process_pending has returned.
C17_Witness ==
  \E t \in TaskIds :
    /\ tasks[t].status = COMPLETED /\ tasks[t].attempts = 2
    /\ tasks[t].completed_at = TickSeconds /\ tasks[t].last_error = "error"
    /\ wk[1].pc = "idle"
    /\ pending[t] = None /\ t \notin processing

\* The schedule as the specification words it: 30, 60, 120, ... seconds,
\* doubling per attempt and capped at 3600.
RECURSIVE ExpectedDelay(_)
ExpectedDelay(attempts) ==
  IF attempts = 1 THEN 30
  ELSE Min(2 * ExpectedDelay(attempts - 1), 3600)

\* C18: a failed attempt that does not exhaust max_attempts reschedules the
\* task at the failure time plus min(30 * 2^(attempts - 1), 3600) seconds,
\* attempts being the count after the increment; the delay is a function of
\* attempts alone, never exceeds 3600 and never decreases as attempts grows.
C18_BackoffSchedule ==
  [][/\ (PTHandlerFail(1) /\ ~Exhausted(wk[1].task))
          => LET attempts == wk[1].task.attempts
                 delay == wk'[1].task.next_retry_at - utcnow
             IN /\ wk'[1].task.status = PENDING
                /\ delay = ExpectedDelay(attempts)
                /\ delay <= 3600
                /\ attempts > 1 => delay >= ExpectedDelay(attempts - 1)
                /\ wk'[1].score = Timestamp(utcnow + delay)
     /\ PTZAdd(1) => pending'[wk[1].task_id] = wk[1].score
     /\ (FailedRun(1) /\ ~Exhausted(wk[1].task) /\ PTSet(1))
          => Indexed(wk[1].task_id)']_vars

\* The ninth failure in a row: the uncapped delay would be 7680 seconds, the
\* task is back in the index 3600 seconds after the failure.
C18_Witness ==
  /\ wk[1].pc = "idle"
  /\ tasks[1].status = PENDING /\ tasks[1].attempts = 9
  /\ BASE_DELAY_SECONDS * Pow(BACKOFF_MULTIPLIER, 8) > MAX_DELAY_SECONDS
  /\ pending[1] = Timestamp(utcnow + 3600)

\* The steps on which caller c's invoked operation resolves.
RaiseStep(c) == AsyncFail(c) \/ CallSyncFail(c)
ReturnStep(c) == AsyncSucceed(c) \/ CallSyncOk(c)
Failures == breaker.stats.failures

\* C19: when an invoked operation raises, the breaker records the failure and
\* then raises that same error to its caller, in CLOSED and in HALF_OPEN
\* alike; CircuitOpenError is raised only for calls whose operation was not
\* invoked.
C19_ErrorsReraised ==
  [][\A c \in Callers :
       /\ RaiseStep(c)
            => /\ Failures' = Failures + 1
               /\ breaker'.stats.last_failure_time = clock
               /\ breaker'.stats.consecutive_failures
                    = breaker.stats.consecutive_failures + 1
               /\ outcome'[c] = "error"
       /\ AsyncTimeout(c)
            => (Failures' = Failures + 1 /\ outcome'[c] = "TimeoutError")
       /\ (RaiseStep(c) \/ ReturnStep(c) \/ AsyncTimeout(c))
            => outcome'[c] # "CircuitOpenError"
       /\ (outcome'[c] = "CircuitOpenError" /\ outcome'[c] # outcome[c])
            => (CallRejected(c) /\ invoked' = invoked /\ cpc[c] = "idle")]_vars

\* A probe raised while the breaker was HALF_OPEN: the failure is counted, the
\* caller has the operation's error, and an earlier call failed in CLOSED.
C19_Witness ==
  \E c \in Callers :
    /\ outcome[c] = "error"
    /\ h_probe_fail.state = HALF_OPEN
    /\ breaker.state = OPEN
    /\ Failures = failure_threshold + 1

\* How long caller c's operation has run on the step that resolves it.
RanFor(c) == IF cpc[c] = "running" THEN clock - started[c] ELSE clock' - clock
Resolves(c) ==
  \/ RaiseStep(c) \/ ReturnStep(c) \/ AsyncTimeout(c)
  \/ CallSyncSlowOk(c) \/ CallSyncSlowFail(c)

\* C20: every operation invoked through call(), synchronous or asynchronous,
\* is bounded by call_timeout: one that runs longer is recorded as a failure
\* exactly as if it had raised.
C20_EveryCallTimeBounded ==
  [][\A c \in Callers :
       (Resolves(c) /\ RanFor(c) > CallTimeout)
         => /\ Failures' = Failures + 1
            /\ outcome'[c] \in {"error", "TimeoutError"}]_vars

\* The asynchronous half alone: an awaited operation that outlasts
\* call_timeout ends as a recorded failure and a TimeoutError.
AsyncCallTimeBounded ==
  [][\A c \in Callers :
       (cpc[c] = "running" /\ cpc'[c] = "idle" /\ RanFor(c) > CallTimeout)
         => /\ breaker' = on_failure(breaker, clock, failure_threshold)
            /\ outcome'[c] = "TimeoutError"]_vars

AsyncTimedOut ==
  \E c \in Callers :
    outcome[c] = "TimeoutError" /\ Failures = 1 /\ clock > CallTimeout

\* C21: get_status() and get_queue_stats() are read-only: wherever they are
\* interleaved among other operations they leave the breaker's state, stats
\* and state_changed_at, every task record, the pending index, the processing
\* set and the dead-letter list unchanged; get_status() on an OPEN breaker
\* whose cool-down has elapsed does not move it to HALF_OPEN.
C21_ReadsAreReadOnly ==
  [][/\ GetStatus
          => /\ breaker' = breaker
             /\ obs'.status.state = breaker.state
             /\ UNCHANGED <<cpc, outcome, invoked, started, rqvars>>
     /\ (GQSZCard \/ GQSSCard \/ GQSLLen)
          => UNCHANGED <<tasks, pending, processing, dead, wk, enq, rdl, cbvars>>
     /\ GQSLLen
          => obs'.stats.dead_letter = Len(dead)]_vars

\* get_status() has just reported an OPEN breaker whose cool-down had elapsed,
\* and the breaker is still OPEN with the same state_changed_at.
C21_Witness ==
  /\ obs.status.state = OPEN /\ obs.read_at = clock
  /\ breaker.state = OPEN /\ ~CoolingDown
  /\ obs.status.failures = breaker.stats.failures

\* get_queue_stats() has returned while a dead-lettered task sits in the list.
StatsReturned ==
  /\ obs.stats.pc = "done" /\ obs.stats.dead_letter = 1 /\ obs.stats.pending = 0
  /\ dead = <<1>> /\ tasks[1].status = DEAD

\* A change of the breaker from b1 to b2 is one of the four transitions of
\* the state machine, each under its condition; admit says that the change
\* is made by the admission check of a call attempt.
LegalChange(b1, b2, admit) ==
  \/ b1.state = b2.state
  \/ /\ b1.state = CLOSED /\ b2.state = OPEN
     /\ b2.stats.consecutive_failures >= failure_threshold
  \/ /\ b1.state = OPEN /\ b2.state = HALF_OPEN
     /\ admit
     /\ clock - b1.state_changed_at >= ResetTimeout
  \/ /\ b1.state = HALF_OPEN /\ b2.state = CLOSED
     /\ b2.stats.consecutive_successes >= success_threshold
  \/ /\ b1.state = HALF_OPEN /\ b2.state = OPEN
     /\ b2.stats.failures = b1.stats.failures + 1

\* A call of a plain function: admission and bookkeeping in one step.
SyncStep == invoked' = invoked + 1 /\ cpc' = cpc

\* C22: the breaker starts CLOSED and every state change, under any
\* interleaving of callers, is CLOSED -> OPEN (consecutive_failures >=
\* failure_threshold), OPEN -> HALF_OPEN (inside a call attempt, after
\* reset_timeout), HALF_OPEN -> CLOSED (consecutive_successes >=
\* success_threshold) or HALF_OPEN -> OPEN (on a failure); never OPEN ->
\* CLOSED or CLOSED -> HALF_OPEN.  A call of a plain function is judged on
\* its two changes, the admission and the bookkeeping.
C22_LegalTransitions ==
  /\ breaker.state = CLOSED
  /\ [][IF SyncStep
         THEN LET mid == call_admit(breaker, clock) IN
                /\ LegalChange(breaker, mid, TRUE)
                /\ LegalChange(mid, breaker', FALSE)
         ELSE LegalChange(breaker, breaker', invoked' = invoked + 1)]_vars

\* The breaker has been round the whole machine: opened, probed and reopened
\* by a failed probe, probed again and closed.
C22_Witness ==
  /\ breaker.state = CLOSED /\ breaker.state_changed_at > 0
  /\ h_probe_fail.state = HALF_OPEN
  /\ breaker.stats.consecutive_successes >= success_threshold

\* C23: the lock is held for the admission check and for the bookkeeping
\* only, never while the operation runs: while one caller's operation is in
\* flight and the breaker is CLOSED or HALF_OPEN, a second call() is admitted
\* and its operation invoked at once (within the model's budget of calls).
C23_AdmittedWhileInFlight ==
  \A c1, c2 \in Callers :
    (/\ c1 # c2
     /\ cpc[c1] = "running" /\ cpc[c2] = "idle"
     /\ breaker.state \in {CLOSED, HALF_OPEN}
     /\ invoked < MaxCalls)
      => ENABLED CallAsync(c2)

\* Two operations are in flight at once on a HALF_OPEN breaker, the second
\* admitted after the first.
C23_Witness ==
  /\ cpc[1] = "running" /\ cpc[2] = "running"
  /\ started[1] < started[2]
  /\ breaker.state = HALF_OPEN

\* Operations invoked and not yet resolved, and those resolved.
InFlight == Cardinality({c \in Callers : cpc[c] = "running"})
Resolved == invoked - InFlight

\* C24: every admitted call updates the counters exactly once, when it
\* resolves: failures + successes is always the number of resolved
\* invocations, neither total ever decreases, and consecutive_failures and
\* consecutive_successes are never both non-zero.
C24_CountedExactlyOnce ==
  /\ [](/\ breaker.stats.failures + breaker.stats.successes = Resolved
        /\ ~(/\ breaker.stats.consecutive_failures > 0
             /\ breaker.stats.consecutive_successes > 0))
  /\ [][/\ breaker'.stats.failures >= breaker.stats.failures
        /\ breaker'.stats.successes >= breaker.stats.successes
        /\ breaker'.stats.failures + breaker'.stats.successes
             - (breaker.stats.failures + breaker.stats.successes)
           = Resolved' - Resolved]_vars

\* Calls have succeeded, failed and timed out, and one is still in flight.
C24_Witness ==
  /\ breaker.stats.successes >= 1 /\ breaker.stats.failures >= 2
  /\ \E c \in Callers : outcome[c] = "TimeoutError"
  /\ InFlight = 1
  /\ invoked = breaker.stats.failures + breaker.stats.successes + 1

\* C25: after a failed attempt rescheduled a task with next_retry_at = T, no
\* worker invokes its handler before T, for any number of concurrent
\* workers, one of which may hold a batch read before the reschedule.  (A
\* worker at the handler of a task it loaded with attempts >= 1 has loaded
\* the rescheduled record with its next_retry_at.)
C25_RetryNotBeforeT ==
  \A w \in Workers :
    (wk[w].pc = "handler" /\ wk[w].task.attempts >= 2)
      => utcnow >= wk[w].task.next_retry_at

\* A worker is at the handler of a rescheduled task, from a batch it read
\* before the task's retry time, while the retry time is still ahead.
RetriedEarly ==
  \E w \in Workers :
    /\ wk[w].pc = "handler" /\ wk[w].task.attempts = 2
    /\ wk[w].now < wk[w].task.next_retry_at
    /\ utcnow < wk[w].task.next_retry_at

\* C26: when a worker crashes after it has claimed a task (zrem) and before
\* it has recorded the outcome, the task's id is in the processing set from
\* then on, permanently, and no later process_pending of any worker executes
\* the task or requeues it (workers poll one at a time here, so a dead
\* worker's id is held by nobody else).
C26_CrashedStaysInProcessing ==
  \A w \in Workers :
    wk[w].pc = "crashed" =>
      /\ wk[w].task_id \in processing
      /\ pending[wk[w].task_id] = None
      /\ \A v \in Workers \ {w} :
           wk[v].pc # "crashed" => (~Holds(v, wk[w].task_id) /\ ~InBatch(v, wk[w].task_id))

\* A worker died between zrem and sadd: the id it had claimed is in no
\* structure at all, time has passed and the other workers are between polls.
ClaimedAndLost ==
  \E w \in Workers :
    /\ wk[w].pc = "crashed"
    /\ wk[w].task_id \notin processing
    /\ pending[wk[w].task_id] = None
    /\ ~InList(dead, wk[w].task_id)
    /\ tasks[wk[w].task_id].status = PENDING
    /\ utcnow > wk[w].now
    /\ \A v \in Workers \ {w} : wk[v].pc = "idle"

\* No process_pending and no retry_dead_letter call is in progress.
Quiescent == rdl.pc = "idle" /\ \A w \in Workers : wk[w].pc = "idle"

\* The number of entries of the dead-letter list that are t.
Occurrences(t) == Cardinality({i \in 1..Len(dead) : dead[i] = t})

\* C27: whenever no process_pending or retry_dead_letter call is in
\* progress, for any number of workers, the dead-letter list holds exactly
\* the ids whose persisted status is DEAD, each exactly once, and no id of the
\* dead-letter list is in the pending index.
C27_DeadListExact ==
  Quiescent =>
    \A t \in TaskIds :
      /\ Occurrences(t) = IF Created(t) /\ tasks[t].status = DEAD THEN 1 ELSE 0
      /\ InList(dead, t) => pending[t] = None

\* Between calls the dead-letter list names the same task twice.
DeadListedTwice ==
  /\ Quiescent
  /\ \E t \in TaskIds : Occurrences(t) = 2 /\ tasks[t].status = DEAD

\* Between calls the dead-letter list names a task that is COMPLETED.
DeadListedCompleted ==
  /\ Quiescent
  /\ \E t \in TaskIds : InList(dead, t) /\ tasks[t].status = COMPLETED

\* The step closes the breaker.
Closes == breaker.state # CLOSED /\ breaker'.state = CLOSED

\* The awaited operation of c returns in this step, and c had been admitted
\* before the breaker entered its present state.
LateSuccess(c) == AsyncSucceed(c) /\ started[c] < breaker.state_changed_at

\* C28: under any interleaving of callers the breaker goes from HALF_OPEN to
\* CLOSED only after success_threshold successes recorded since it last
\* entered HALF_OPEN, none of them the late success of a call admitted before
\* the breaker opened: such a success does not close the breaker.
C28_OnlyProbeSuccessesClose ==
  [][Closes =>
       /\ h_probe_succ' >= success_threshold
       /\ \A c \in Callers : ~LateSuccess(c)]_vars

\* The breaker is CLOSED again although no call admitted since it entered
\* HALF_OPEN has resolved: the probe is still in flight and the success that
\* closed it came from the other caller, whose call dates from before.
ClosedByLateSuccess ==
  /\ breaker.state = CLOSED /\ breaker.stats.failures > 0
  /\ \E c \in Callers :
       /\ c \in h_probe /\ cpc[c] = "running"
       /\ started[c] < breaker.state_changed_at
       /\ breaker.stats.last_failure_time < started[c]
       /\ \A d \in Callers \ {c} : outcome[d] = "ok" /\ cpc[d] = "idle"

\* C29: in every reachable state, under any interleaving of callers and with
\* thresholds >= 1, a CLOSED breaker has consecutive_failures <
\* failure_threshold.
C29_ClosedBelowThreshold ==
  /\ failure_threshold >= 1 /\ success_threshold >= 1
  /\ breaker.state = CLOSED
       => breaker.stats.consecutive_failures < failure_threshold

\* A breaker that opened and closed again is one failure short of opening.
C29_Witness ==
  /\ breaker.state = CLOSED /\ breaker.state_changed_at > 0
  /\ breaker.stats.consecutive_failures >= 1
  /\ breaker.stats.consecutive_failures = failure_threshold - 1

\* C30: when a call admitted earlier resolves while the breaker is OPEN, its
\* outcome updates the counters and changes neither state nor
\* state_changed_at: a late failure does not extend the cool-down, a late
\* success neither closes nor half-opens the breaker.
C30_LateOutcomeKeepsOpen ==
  [][\A c \in Callers :
       /\ (breaker.state = OPEN /\ (AsyncFail(c) \/ AsyncTimeout(c)))
            => /\ breaker'.state = OPEN
               /\ breaker'.state_changed_at = breaker.state_changed_at
               /\ breaker'.stats.failures = breaker.stats.failures + 1
               /\ breaker'.stats.consecutive_failures
                    = breaker.stats.consecutive_failures + 1
               /\ breaker'.stats.last_failure_time = clock
       /\ (breaker.state = OPEN /\ AsyncSucceed(c))
            => /\ breaker'.state = OPEN
               /\ breaker'.state_changed_at = breaker.state_changed_at
               /\ breaker'.stats.successes = breaker.stats.successes + 1
               /\ breaker'.stats.consecutive_successes
                    = breaker.stats.consecutive_successes + 1
               /\ breaker'.stats.last_success_time = clock]_vars

\* An OPEN breaker has recorded a success after it opened, completing the
\* streak of success_threshold, and is still OPEN with its cool-down running
\* from the time it opened.
C30_Witness ==
  /\ breaker.state = OPEN
  /\ breaker.stats.last_success_time > breaker.state_changed_at
  /\ breaker.stats.consecutive_successes >= success_threshold
  /\ \A c \in Callers : cpc[c] = "idle"

\* An OPEN breaker has recorded a failure after it opened.
LateFailureWhileOpen ==
  /\ breaker.state = OPEN
  /\ breaker.stats.last_failure_time > breaker.state_changed_at

====
